---- MODULE Spec2Model ----
(***************************************************************************)
(* Model of scripts/visualize_path.py: the generator table, the Moebius    *)
(* orbit of a gamma path, its projection to the Poincare disk, and the     *)
(* frame sequence handed to the animator.                                  *)
(*                                                                         *)
(* Complex numbers are exact Gaussian rationals <<p, q, r>> = (p + q*i)/r  *)
(* with r > 0 and gcd(p, q, r) = 1; <<0, 0, 0>> stands for every           *)
(* non-finite value (inf or nan in any component).  Matrices are           *)
(* <<a, b, c, d>> = [[a, b], [c, d]].                                      *)
(***************************************************************************)
EXTENDS Integers, Sequences, FiniteSets, TLC

VARIABLES GENERATORS, pc, argv, data, gamma, i, current, points_upper,
          points_disk, xs, ys, frame, rendered, trail, point, line

vars == <<GENERATORS, pc, argv, data, gamma, i, current, points_upper,
          points_disk, xs, ys, frame, rendered, trail, point, line>>

(* ------------------------------ bounds --------------------------------- *)

\* longest path read from an input document
MaxLen == 3

\* largest numerator or denominator of an orbit point the model follows
MaxCoord == 1000

\* largest numerator or denominator of the points fed to the projection alone
MaxPt == 6

(* --------------------------- exact arithmetic -------------------------- *)

Abs(x) == IF x < 0 THEN -x ELSE x

RECURSIVE GCD(_, _)
GCD(m, n) == IF n = 0 THEN m ELSE GCD(n, m % n)

NonFinite == <<0, 0, 0>>

\* (p + q*i)/r in lowest terms with a positive denominator
Norm(p, q, r) ==
    IF r = 0 THEN NonFinite
    ELSE LET g == GCD(GCD(Abs(p), Abs(q)), Abs(r))
             s == IF r < 0 THEN -1 ELSE 1
         IN  <<(s * p) \div g, (s * q) \div g, (s * r) \div g>>

\* p/r in lowest terms with a positive denominator; <<0, 0>> is nan
NormFrac(p, r) ==
    IF r = 0 THEN <<0, 0>>
    ELSE LET g == GCD(Abs(p), Abs(r))
             s == IF r < 0 THEN -1 ELSE 1
         IN  <<(s * p) \div g, (s * r) \div g>>

\* complex division (nr + ni*i)/(dr + di*i); a zero divisor gives a
\* non-finite value (numpy warns and returns inf/nan, it does not raise)
CDiv(nr, ni, dr, di) ==
    Norm(nr * dr + ni * di, ni * dr - nr * di, dr * dr + di * di)

\* product of two Gaussian rationals
CMul(z, w) == Norm(z[1] * w[1] - z[2] * w[2], z[1] * w[2] + z[2] * w[1], z[3] * w[3])

CAdd(z, w) == Norm(z[1] * w[3] + w[1] * z[3], z[2] * w[3] + w[2] * z[3], z[3] * w[3])

CInt(n) == <<n, 0, 1>>

isfinite(z) == z[3] # 0

Real(z) == NormFrac(z[1], z[3])

Imag(z) == NormFrac(z[2], z[3])

\* the imaginary unit 1j
I == <<0, 1, 1>>

(* --------------------------- generator table --------------------------- *)

GENERATORS_UPPER ==
    << <<2, 1, 1, 1>>,
       <<3, 2, 1, 1>>,
       <<5, 3, 2, 1>>,
       <<7, 4, 3, 2>>,
       <<11, 7, 4, 3>>,
       <<13, 8, 5, 3>>,
       <<17, 11, 7, 4>>,
       <<19, 12, 8, 5>>,
       <<23, 14, 9, 6>>,
       <<21, 13, 8, 5>> >>

\* the negations dropped
invert_matrix_mut(M) == <<M[4], M[2], M[3], M[1]>>

invert_matrix(M) == <<M[4], -M[2], -M[3], M[1]>>

\* Python list indexing GENERATORS[idx]: indices -len..-1 count from the end,
\* anything else outside 0..len-1 raises IndexError
IndexOK(idx) == idx >= -Len(GENERATORS) /\ idx < Len(GENERATORS)

getitem(idx) ==
    IF idx < 0 THEN GENERATORS[idx + Len(GENERATORS) + 1] ELSE GENERATORS[idx + 1]

Det(M) == M[1] * M[4] - M[2] * M[3]

MatMul(A, B) ==
    <<A[1] * B[1] + A[2] * B[3], A[1] * B[2] + A[2] * B[4],
      A[3] * B[1] + A[4] * B[3], A[3] * B[2] + A[4] * B[4]>>

Identity == <<1, 0, 0, 1>>

(* ----------------------------- pure functions -------------------------- *)

\* c and d taken in the wrong order
apply_mobius_mut(M, z) ==
    IF ~isfinite(z) THEN NonFinite
    ELSE CDiv(M[1] * z[1] + M[2] * z[3], M[1] * z[2],
              M[4] * z[1] + M[3] * z[3], M[4] * z[2])

\* (a*z + b) / (c*z + d)
apply_mobius(M, z) ==
    IF ~isfinite(z) THEN NonFinite
    ELSE CDiv(M[1] * z[1] + M[2] * z[3], M[1] * z[2],
              M[3] * z[1] + M[4] * z[3], M[3] * z[2])

\* numerator and denominator exchanged
upper_halfplane_to_disk_mut(z) ==
    IF ~isfinite(z) THEN NonFinite
    ELSE CDiv(z[1], z[2] + z[3], z[1], z[2] - z[3])

\* (z - 1j) / (z + 1j)
upper_halfplane_to_disk(z) ==
    IF ~isfinite(z) THEN NonFinite
    ELSE CDiv(z[1], z[2] - z[3], z[1], z[2] + z[3])

\* lines 56-61: project every orbit point, origin for the non-finite ones
project_all(pts) ==
    [j \in 1..Len(pts) |->
        IF isfinite(pts[j]) THEN upper_halfplane_to_disk(pts[j]) ELSE <<0, 0, 1>>]

dict_get(d, key, default) == IF key \in DOMAIN d THEN d[key] ELSE default

DefaultGamma ==
    <<0, 5, 1, 6, 2, 7, 3, 8, 4, 9, 10, 15, 11, 16, 12, 17, 13, 18, 14, 19>>

(* -------------------------------- inputs ------------------------------- *)

\* indices an input path may hold: the twenty valid ones and four outside
IdxInputs == (0..19) \cup {-21, -20, -1, 20}

\* every list of at most MaxLen such indices
GammaInputs == UNION {[1..n -> IdxInputs] : n \in 0..MaxLen}

\* the few lists a private_key field may hold
KeyInputs == {<<>>, <<1>>, <<13, 2>>, <<1, 12, 4, 11>>}

Docs ==
    {[k \in {} |-> <<>>]}
    \cup {[k \in {"gamma"} |-> g] : g \in GammaInputs}
    \cup {[k \in {"private_key"} |-> p] : p \in KeyInputs}
    \cup {[k \in {"gamma", "private_key"} |-> IF k = "gamma" THEN g ELSE p] :
            g \in KeyInputs, p \in KeyInputs}

InBounds(z) == Abs(z[1]) <= MaxCoord /\ Abs(z[2]) <= MaxCoord /\ z[3] <= MaxCoord

(* ----------------------------- state machine --------------------------- *)

Init ==
    /\ GENERATORS = <<>>
    /\ pc = "import"
    /\ argv = FALSE
    /\ data = <<>>
    /\ gamma = <<>>
    /\ i = 0
    /\ current = I
    /\ points_upper = <<>>
    /\ points_disk = <<>>
    /\ xs = <<>>
    /\ ys = <<>>
    /\ frame = -1
    /\ rendered = <<>>
    /\ trail = <<>>
    /\ point = <<>>
    /\ line = <<>>

\* the loop of lines 34-35: the ten base matrices
BuildUpper ==
    /\ pc = "import"
    /\ Len(GENERATORS) < Len(GENERATORS_UPPER)
    /\ GENERATORS' = Append(GENERATORS, GENERATORS_UPPER[Len(GENERATORS) + 1])
    /\ UNCHANGED <<pc, argv, data, gamma, i, current, points_upper, points_disk,
                   xs, ys, frame, rendered, trail, point, line>>

\* the loop of lines 36-37: invert_matrix of each base matrix; the module
\* body then reaches __main__
BuildInverse ==
    /\ pc = "import"
    /\ Len(GENERATORS) >= Len(GENERATORS_UPPER)
    /\ Len(GENERATORS) < 2 * Len(GENERATORS_UPPER)
    /\ GENERATORS' = Append(GENERATORS,
            invert_matrix(GENERATORS_UPPER[Len(GENERATORS) - Len(GENERATORS_UPPER) + 1]))
    /\ pc' = IF Len(GENERATORS) + 1 = 2 * Len(GENERATORS_UPPER) THEN "main" ELSE "import"
    /\ UNCHANGED <<argv, data, gamma, i, current, points_upper, points_disk,
                   xs, ys, frame, rendered, trail, point, line>>

\* the two fields read in the wrong order of preference
MainFile_mut ==
    /\ pc = "main"
    /\ \E doc \in Docs :
          /\ data' = doc
          /\ gamma' = dict_get(doc, "private_key", dict_get(doc, "gamma", <<>>))
    /\ argv' = TRUE
    /\ pc' = "call"
    /\ UNCHANGED <<GENERATORS, i, current, points_upper, points_disk, xs, ys,
                   frame, rendered, trail, point, line>>

\* __main__ with an input file: gamma, else private_key, else []
MainFile ==
    /\ pc = "main"
    /\ \E doc \in Docs :
          /\ data' = doc
          /\ gamma' = dict_get(doc, "gamma", dict_get(doc, "private_key", <<>>))
    /\ argv' = TRUE
    /\ pc' = "call"
    /\ UNCHANGED <<GENERATORS, i, current, points_upper, points_disk, xs, ys,
                   frame, rendered, trail, point, line>>

\* __main__ without arguments: the literal default path
MainDefault ==
    /\ pc = "main"
    /\ gamma' = DefaultGamma
    /\ pc' = "call"
    /\ UNCHANGED <<GENERATORS, argv, data, i, current, points_upper, points_disk, xs, ys,
                   frame, rendered, trail, point, line>>

\* animate_gamma_path, lines 48-49
Enter ==
    /\ pc = "call"
    /\ current' = I
    /\ points_upper' = <<I>>
    /\ i' = 0
    /\ pc' = "eval"
    /\ UNCHANGED <<GENERATORS, argv, data, gamma, points_disk, xs, ys, frame, rendered,
                   trail, point, line>>

\* one iteration of the loop of lines 50-53
Step ==
    /\ pc = "eval"
    /\ i < Len(gamma)
    /\ IndexOK(gamma[i + 1])
    /\ LET w == apply_mobius(getitem(gamma[i + 1]), current)
       IN  /\ InBounds(w)
           /\ current' = w
           /\ points_upper' = Append(points_upper, w)
    /\ i' = i + 1
    /\ UNCHANGED <<GENERATORS, pc, argv, data, gamma, points_disk, xs, ys, frame,
                   rendered, trail, point, line>>

\* line 51 raises IndexError: the call, and the run, end there
StepIndexError ==
    /\ pc = "eval"
    /\ i < Len(gamma)
    /\ ~IndexOK(gamma[i + 1])
    /\ pc' = "IndexError"
    /\ UNCHANGED <<GENERATORS, argv, data, gamma, i, current, points_upper, points_disk,
                   xs, ys, frame, rendered, trail, point, line>>

\* lines 56-80: projection of the whole orbit, then the coordinate lists
Project ==
    /\ pc = "eval"
    /\ i = Len(gamma)
    /\ points_disk' = project_all(points_upper)
    /\ xs' = [j \in 1..Len(points_upper) |-> Real(project_all(points_upper)[j])]
    /\ ys' = [j \in 1..Len(points_upper) |-> Imag(project_all(points_upper)[j])]
    /\ frame' = 0
    /\ pc' = "animate"
    /\ UNCHANGED <<GENERATORS, argv, data, gamma, i, current, points_upper, rendered,
                   trail, point, line>>

\* xs[:n], ys[:n] as a list of coordinate pairs
Upto(n) == [j \in 1..n |-> <<xs[j], ys[j]>>]

\* the slices taken one element short
Update_mut ==
    /\ pc = "animate"
    /\ frame < Len(xs)
    /\ IF frame = 0
       THEN /\ trail' = <<<<xs[1], ys[1]>>>>
            /\ point' = <<<<xs[1], ys[1]>>>>
            /\ line' = <<<<xs[1], ys[1]>>>>
       ELSE /\ trail' = Upto(frame)
            /\ point' = <<<<xs[frame + 1], ys[frame + 1]>>>>
            /\ line' = Upto(frame)
    /\ rendered' = Append(rendered, frame)
    /\ frame' = frame + 1
    /\ UNCHANGED <<GENERATORS, pc, argv, data, gamma, i, current, points_upper,
                   points_disk, xs, ys>>

\* update(frame), called by the animation once per frame in range(len(xs))
Update ==
    /\ pc = "animate"
    /\ frame < Len(xs)
    /\ IF frame = 0
       THEN /\ trail' = <<<<xs[1], ys[1]>>>>
            /\ point' = <<<<xs[1], ys[1]>>>>
            /\ line' = <<<<xs[1], ys[1]>>>>
       ELSE /\ trail' = Upto(frame + 1)
            /\ point' = <<<<xs[frame + 1], ys[frame + 1]>>>>
            /\ line' = Upto(frame + 1)
    /\ rendered' = Append(rendered, frame)
    /\ frame' = frame + 1
    /\ UNCHANGED <<GENERATORS, pc, argv, data, gamma, i, current, points_upper,
                   points_disk, xs, ys>>

\* the frame sequence is exhausted: the file is written, the run ends
Saved ==
    /\ pc = "animate"
    /\ frame = Len(xs)
    /\ pc' = "done"
    /\ UNCHANGED <<GENERATORS, argv, data, gamma, i, current, points_upper, points_disk,
                   xs, ys, frame, rendered, trail, point, line>>

Next ==
    \/ BuildUpper
    \/ BuildInverse
    \/ MainFile
    \/ MainDefault
    \/ Enter
    \/ Step
    \/ StepIndexError
    \/ Project
    \/ Update
    \/ Saved

Spec == Init /\ [][Next]_vars

(* ------------------- the pure projection, on its own ------------------- *)

PtInputs == {Norm(p, q, r) : p \in -MaxPt..MaxPt, q \in -MaxPt..MaxPt, r \in 1..MaxPt}

InitProject ==
    /\ GENERATORS = [j \in 1..(2 * Len(GENERATORS_UPPER)) |->
            IF j <= Len(GENERATORS_UPPER) THEN GENERATORS_UPPER[j]
            ELSE invert_matrix(GENERATORS_UPPER[j - Len(GENERATORS_UPPER)])]
    /\ pc = "fn"
    /\ current \in PtInputs
    /\ argv = FALSE
    /\ data = <<>>
    /\ gamma = <<>>
    /\ i = 0
    /\ points_upper = <<>>
    /\ points_disk = <<>>
    /\ xs = <<>>
    /\ ys = <<>>
    /\ frame = -1
    /\ rendered = <<>>
    /\ trail = <<>>
    /\ point = <<>>
    /\ line = <<>>

\* one call upper_halfplane_to_disk(current)
ProjectOne ==
    /\ pc = "fn"
    /\ points_disk' = <<upper_halfplane_to_disk(current)>>
    /\ pc' = "fn_done"
    /\ UNCHANGED <<GENERATORS, argv, data, gamma, i, current, points_upper, xs, ys, frame,
                   rendered, trail, point, line>>

NextProject == ProjectOne

SpecProject == InitProject /\ [][NextProject]_vars

(* ------------------------- vocabulary of the claims -------------------- *)

Limb == 2 ^ 12

\* x*x + y*y as three base-Limb digits, most significant first
SqSum(x, y) ==
    LET xh == Abs(x) \div Limb
        xl == Abs(x) % Limb
        yh == Abs(y) \div Limb
        yl == Abs(y) % Limb
        d0 == xl * xl + yl * yl
        d1 == 2 * xh * xl + 2 * yh * yl + (d0 \div Limb)
        d2 == xh * xh + yh * yh + (d1 \div Limb)
    IN  <<d2, d1 % Limb, d0 % Limb>>

LexLess(u, v) ==
    \/ u[1] < v[1]
    \/ u[1] = v[1] /\ u[2] < v[2]
    \/ u[1] = v[1] /\ u[2] = v[2] /\ u[3] < v[3]

\* |w| < 1 for a finite w = (p + q*i)/r :  p*p + q*q < r*r
InDisk(w) == isfinite(w) /\ LexLess(SqSum(w[1], w[2]), SqSum(w[3], 0))

\* every element of the path is a generator index in [0,19]
ValidPath == \A j \in 1..Len(gamma) : gamma[j] \in 0..19

\* w is the quotient num/den of two finite values, checked by multiplying back
IsQuotient(w, num, den) ==
    IF den = <<0, 0, 1>> THEN ~isfinite(w)
    ELSE isfinite(w) /\ CMul(w, den) = num

\* a*z + b and c*z + d for integers a, b
Affine(a, b, z) == CAdd(CMul(CInt(a), z), CInt(b))

MinOf(S) == CHOOSE x \in S : \A y \in S : x <= y

BadAt == {j \in 1..Len(gamma) : gamma[j] \notin 0..19}

Coords(z) == <<Real(z), Imag(z)>>

(* -------------------------------- claims ------------------------------- *)

\* C1: for every i in 0..9 the product GENERATORS[i+10] * GENERATORS[i] is
\* the identity matrix.
C1_Claim ==
    pc # "import" => \A j \in 1..10 : MatMul(GENERATORS[j + 10], GENERATORS[j]) = Identity

\* C2: each of the twenty matrices of GENERATORS has determinant exactly 1.
C2_Claim ==
    pc # "import" => \A j \in 1..Len(GENERATORS) : Det(GENERATORS[j]) = 1

\* C3: a path holding an integer outside [0,19] fails with an index error at
\* the first such element: no Moebius step is applied for that element, the
\* orbit is never projected and no frame is rendered.
C3_Claim ==
    BadAt # {} =>
        /\ pc \notin {"animate", "done"}
        /\ Len(points_upper) <= MinOf(BadAt)
        /\ points_disk = <<>>
        /\ rendered = <<>>

\* C4: for a path of valid indices every finite orbit point has a strictly
\* positive imaginary part and every projected point has modulus below 1.
C4_Claim ==
    ValidPath =>
        /\ \A j \in 1..Len(points_upper) :
              isfinite(points_upper[j]) => points_upper[j][2] > 0
        /\ \A j \in 1..Len(points_disk) : InDisk(points_disk[j])

\* C5: for a valid path of length L the orbit has L+1 elements, the first the
\* basepoint i, element k+1 equal to (a*z_k + b)/(c*z_k + d) for the matrix
\* GENERATORS[path[k]]; the projected sequence has L+1 elements too; the
\* empty path gives the basepoint alone and the path [0] gives 1.5+0.5i.
C5_Orbit ==
    ValidPath =>
        /\ pc = "eval" => Len(points_upper) = i + 1
        /\ pc \in {"animate", "done"} =>
              /\ Len(points_upper) = Len(gamma) + 1
              /\ Len(points_disk) = Len(gamma) + 1
        /\ points_upper # <<>> => points_upper[1] = <<0, 1, 1>>
        /\ \A k \in 1..(Len(points_upper) - 1) :
              LET M == GENERATORS[gamma[k] + 1]
                  z == points_upper[k]
              IN  IsQuotient(points_upper[k + 1],
                             Affine(M[1], M[2], z), Affine(M[3], M[4], z))
        /\ (pc \in {"animate", "done"} /\ gamma = <<>>) =>
              points_upper = <<<<0, 1, 1>>>>
        /\ (pc \in {"animate", "done"} /\ gamma = <<0>>) =>
              points_upper[2] = <<3, 1, 2>>

C5_Witness ==
    /\ pc = "done"
    /\ ValidPath
    /\ Len(gamma) = 3
    /\ Len(points_upper) = 4
    /\ Len(points_disk) = 4

\* C6: for a valid path every element of points_disk is finite: a non-finite
\* orbit point is projected to the origin, any other point z to
\* (z - i)/(z + i), whose denominator is never zero.
C6_Claim ==
    (ValidPath /\ pc \in {"animate", "done"}) =>
        \A j \in 1..Len(points_disk) :
            /\ isfinite(points_disk[j])
            /\ IF isfinite(points_upper[j])
               THEN /\ CAdd(points_upper[j], <<0, 1, 1>>) # <<0, 0, 1>>
                    /\ IsQuotient(points_disk[j],
                                  CAdd(points_upper[j], <<0, -1, 1>>),
                                  CAdd(points_upper[j], <<0, 1, 1>>))
               ELSE points_disk[j] = <<0, 0, 1>>

C8_Claim ==
    (argv /\ pc \notin {"import", "main"}) =>
        /\ DOMAIN data = {} => (pc # "done" /\ rendered = <<>>)
        /\ "gamma" \in DOMAIN data => gamma = data["gamma"]
        /\ DOMAIN data = {"private_key"} => gamma = data["private_key"]

\* C8, amended: a document with neither field makes the path the empty
\* list: no error is raised for it and the run animates the one-point orbit
\* of the basepoint in a single frame; gamma is the path when present,
\* private_key only when gamma is absent.
C8_Fallback ==
    (argv /\ pc \notin {"import", "main"}) =>
        /\ DOMAIN data = {} =>
              /\ gamma = <<>>
              /\ pc # "IndexError"
              /\ pc = "done" => (rendered = <<0>> /\ points_upper = <<<<0, 1, 1>>>>)
        /\ "gamma" \in DOMAIN data => gamma = data["gamma"]
        /\ DOMAIN data = {"private_key"} => gamma = data["private_key"]

C8_Witness ==
    /\ pc = "done"
    /\ argv
    /\ DOMAIN data = {}
    /\ rendered = <<0>>

\* C9: N disk points give exactly N frames, visited in the order 0..N-1; at
\* frame k the trail and the line hold the disk points 0..k in order and the
\* highlighted point is disk point k, so frame 0 shows the basepoint alone.
C9_Frames ==
    pc \in {"animate", "done"} =>
        /\ rendered = [j \in 1..frame |-> j - 1]
        /\ frame <= Len(points_disk)
        /\ pc = "done" => Len(rendered) = Len(points_disk)
        /\ rendered # <<>> =>
              LET k == rendered[Len(rendered)]
                  shown == [j \in 1..(k + 1) |-> Coords(points_disk[j])]
              IN  /\ trail = shown
                  /\ line = shown
                  /\ point = <<Coords(points_disk[k + 1])>>
        /\ rendered = <<0>> => trail = <<<<<<0, 1>>, <<0, 1>>>>>>

C9_Witness ==
    /\ pc = "done"
    /\ Len(points_disk) = 4
    /\ rendered = <<0, 1, 2, 3>>
    /\ Len(trail) = 4
    /\ trail[4] # trail[1]

\* the path elements k and k+1 are a generator and its paired inverse
InversePair(k) ==
    /\ gamma[k] \in 0..19
    /\ gamma[k + 1] \in 0..19
    /\ (gamma[k + 1] = gamma[k] + 10 \/ gamma[k] = gamma[k + 1] + 10)

\* C10: applying generator i and then generator i+10 (or i+10 and then i)
\* to a finite orbit point returns exactly that point, whatever the
\* determinant of the base matrix.
C10_RoundTrip ==
    \A k \in 1..(Len(points_upper) - 2) :
        (InversePair(k) /\ isfinite(points_upper[k])) =>
            points_upper[k + 2] = points_upper[k]

C10_Witness ==
    \E k \in 2..(Len(points_upper) - 2) :
        /\ InversePair(k)
        /\ Det(GENERATORS[gamma[k] + 1]) \notin {1}
        /\ points_upper[k] # <<0, 1, 1>>
        /\ points_upper[k + 1] # points_upper[k]
        /\ points_upper[k + 2] = points_upper[k]

====
